---------------------------- MODULE Spec2Model ----------------------------
(***************************************************************************)
(* A model of the CHIP-8 / SuperChip interpreter of src/src/chip_8.rs.     *)
(*                                                                         *)
(* The machine (struct Chip8) is a record; every instruction handler is an *)
(* operator from a machine record to a machine record, translated line by  *)
(* line from its Rust method.  A Rust panic is the field `panic` becoming  *)
(* a non-empty message: a panicked machine executes nothing further.       *)
(*                                                                         *)
(* Representation:                                                         *)
(*   ram             [u8; RAM_LEN]      a function on the addresses whose  *)
(*                                      byte differs from the memory of a  *)
(*                                      machine built with an empty        *)
(*                                      program (the font at FONT_START,   *)
(*                                      0 elsewhere), to the byte there    *)
(*   display_buffer  [bool; DISPLAY_LEN] the set of indices that are true  *)
(*   registers       [u8; 16]           a function 0..15 -> 0..255         *)
(*   stack           [u16; 16]          a function 0..15 -> 0..65535       *)
(*   canvas          display.canvas     the buffer last given to           *)
(*                                      Display::render_buffer             *)
(*   renders                            the number of calls of             *)
(*                                      Display::render_buffer so far      *)
(***************************************************************************)
EXTENDS Integers, Sequences, FiniteSets, TLC

(***************************************************************************)
(* crate::constants.  The file constants.rs is not among the sources; the  *)
(* values are those of the specification's data model (4096 bytes of       *)
(* memory, 16 registers, 16 stack entries, a 64x32 framebuffer, programs   *)
(* loaded at 0x200, 16 glyphs of 5 bytes in a low memory region).          *)
(***************************************************************************)
RAM_LEN ==
    4096
REGISTER_COUNT ==
    16
STACK_LEN ==
    16
DISPLAY_WIDTH ==
    64
DISPLAY_HEIGHT ==
    32
DISPLAY_LEN ==
    DISPLAY_WIDTH * DISPLAY_HEIGHT
PROGRAM_START ==
    512
FONT_START ==
    80
FONT_END ==
    160
FONT ==
    << 240, 144, 144, 144, 240,    32,  96,  32,  32, 112,
       240,  16, 240, 128, 240,   240,  16, 240,  16, 240,
       144, 144, 240,  16,  16,   240, 128, 240,  16, 240,
       240, 128, 240, 144, 240,   240,  16,  32,  64,  64,
       240, 144, 240, 144, 240,   240, 144, 240,  16, 240,
       240, 144, 240, 144, 144,   224, 144, 224, 144, 224,
       240, 128, 128, 128, 240,   224, 144, 144, 144, 224,
       240, 128, 240, 128, 240,   240, 128, 240, 128, 128 >>

\* the cadence of the timers, 60 Hz, in nanoseconds
TIMER_DECREMENT_TIME ==
    16666667

\* the default of the option --instruction-time, in nanoseconds
INSTRUCTION_TIME ==
    140000

(***************************************************************************)
(* Bounds of the exploration.                                              *)
(***************************************************************************)
\* rand::random::<u8>() is drawn from the bytes within MaxRand of 0, 128, 256
MaxRand ==
    2
\* the pressed-key snapshots are the subsets of the keys 0 .. MaxKey-1
MaxKey ==
    2
\* sprites of the draw programs are 0 .. MaxHeight rows high
MaxHeight ==
    2
\* the control-flow programs are MaxRomLen instructions long
MaxRomLen ==
    3
\* a run executes at most MaxCycles instruction cycles
MaxCycles ==
    8
\* a run of the scheduler makes at most MaxIterations iterations of its loop
MaxIterations ==
    5
\* the timer programs set the timers to 0 .. MaxTimer
MaxTimer ==
    2

(***************************************************************************)
(* Integer arithmetic of the fixed widths used by the source.              *)
(***************************************************************************)
RECURSIVE BitAnd(_, _)
BitAnd(a, b) ==
    IF a = 0 \/ b = 0 THEN 0
    ELSE (a % 2) * (b % 2) + 2 * BitAnd(a \div 2, b \div 2)

RECURSIVE BitOr(_, _)
BitOr(a, b) ==
    IF a = 0 THEN b
    ELSE IF b = 0 THEN a
    ELSE (IF a % 2 = 1 \/ b % 2 = 1 THEN 1 ELSE 0) + 2 * BitOr(a \div 2, b \div 2)

RECURSIVE BitXor(_, _)
BitXor(a, b) ==
    IF a = 0 THEN b
    ELSE IF b = 0 THEN a
    ELSE ((a + b) % 2) + 2 * BitXor(a \div 2, b \div 2)

RECURSIVE Pow2(_)
Pow2(k) ==
    IF k = 0 THEN 1 ELSE 2 * Pow2(k - 1)

Shr(a, k) ==
    a \div Pow2(k)

U8(v) ==
    v % 256

U16(v) ==
    v % 65536

(***************************************************************************)
(* Quirks::new                                                             *)
(***************************************************************************)
Platforms ==
    {"Chip8", "SuperChip"}

QuirksNew(platform) ==
    IF platform = "Chip8"
    THEN [reset_flag |-> TRUE, increment_index_register |-> TRUE,
          shift_in_place |-> FALSE, jump_plus_x_register |-> FALSE]
    ELSE [reset_flag |-> FALSE, increment_index_register |-> FALSE,
          shift_in_place |-> TRUE, jump_plus_x_register |-> TRUE]

(***************************************************************************)
(* ParsedInstruction::build.  The masks keep whole nibbles of the 16-bit   *)
(* word, so `instruction & mask` is written with \div and %:               *)
(*   (instruction & 0xF000) >> 8  = the top nibble, times 16               *)
(*   (instruction & 0x0F00) >> 8  = the second nibble                      *)
(*   (instruction & 0x00F0) >> 4  = the third nibble                       *)
(*   instruction & 0x000F, & 0x00FF, & 0x0FFF = the low 4, 8, 12 bits      *)
(***************************************************************************)
ParsedInstructionBuild(instruction) ==
    [opcode |-> U8((instruction - (instruction % 4096)) \div 256),
     x      |-> U8(((instruction % 4096) - (instruction % 256)) \div 256),
     y      |-> U8(((instruction % 256) - (instruction % 16)) \div 16),
     n      |-> U8(instruction % 16),
     nn     |-> U8(instruction % 256),
     nnn    |-> instruction % 4096]

(***************************************************************************)
(* Memory and panics.                                                      *)
(***************************************************************************)
\* the byte at address a after `ram = [0; RAM_LEN]` and the copy of the font
EmptyRam(a) ==
    IF a >= FONT_START /\ a < FONT_END THEN FONT[a - FONT_START + 1] ELSE 0

RamGet(ram, a) ==
    IF a \in DOMAIN ram THEN ram[a] ELSE EmptyRam(a)

RamSet(ram, a, v) ==
    IF v = EmptyRam(a)
    THEN [b \in DOMAIN ram \ {a} |-> ram[b]]
    ELSE [b \in DOMAIN ram \cup {a} |-> IF b = a THEN v ELSE ram[b]]

Panic(m, message) ==
    [m EXCEPT !.panic = message]

Running(m) ==
    m.panic = ""

\* An arithmetic overflow of `+`, `-`, `*`: a panic in a build with overflow
\* checks (the debug profile), the wrapped value otherwise (release).
Overflows(m) ==
    m.overflow_checks

(***************************************************************************)
(* Chip8::build: the machine after construction, with the bytes of the     *)
(* program image copied to PROGRAM_START and the font to FONT_START.       *)
(***************************************************************************)
RomFits(bytes) ==
    PROGRAM_START + Len(bytes) <= RAM_LEN

BuildRam(bytes) ==
    LET at(a) == IF a >= PROGRAM_START /\ a < PROGRAM_START + Len(bytes)
                 THEN bytes[a - PROGRAM_START + 1]
                 ELSE EmptyRam(a)
        used == {a \in PROGRAM_START .. PROGRAM_START + Len(bytes) - 1 :
                    at(a) # EmptyRam(a)}
    IN  [a \in used |-> at(a)]

Build(bytes, platform, debug, overflow_checks) ==
    [ram             |-> BuildRam(bytes),
     registers       |-> [i \in 0 .. REGISTER_COUNT - 1 |-> 0],
     stack           |-> [i \in 0 .. STACK_LEN - 1 |-> 0],
     delay_timer     |-> 0,
     sound_timer     |-> 0,
     index_register  |-> 0,
     program_counter |-> PROGRAM_START,
     stack_pointer   |-> 0,
     display_buffer  |-> {},
     debug           |-> debug,
     quirks          |-> QuirksNew(platform),
     update_display  |-> FALSE,
     canvas          |-> {},
     renders         |-> 0,
     overflow_checks |-> overflow_checks,
     panic           |-> ""]

(***************************************************************************)
(* Chip8::fetch_instruction: the two bytes at the program counter, big     *)
(* endian; the program counter advances by 2.  An index past the end of    *)
(* ram panics before the program counter is changed.                       *)
(***************************************************************************)
fetch_instruction(m) ==
    IF m.program_counter >= RAM_LEN \/ m.program_counter + 1 >= RAM_LEN
    THEN [m |-> Panic(m, "index out of bounds: ram"), instruction |-> 0]
    ELSE LET instruction_first_byte  == RamGet(m.ram, m.program_counter)
             instruction_second_byte == RamGet(m.ram, m.program_counter + 1)
         IN  [m |-> [m EXCEPT !.program_counter = @ + 2],
              \* (first as u16) << 8 | second: the low byte of the shifted
              \* value is 0, so the `|` is a sum
              instruction |-> U16(instruction_first_byte * 256)
                              + instruction_second_byte]

\* 0x00E0 that forgets to mark the framebuffer dirty
clear_screen_not_dirty(m) ==
    [m EXCEPT !.display_buffer = {}]

\* 0x00E0
clear_screen(m) ==
    [m EXCEPT !.display_buffer = {}, !.update_display = TRUE]

\* 0x00EE without the check for an empty stack
return_from_subroutine_unchecked(m) ==
    LET m1 == [m EXCEPT !.program_counter = m.stack[m.stack_pointer]]
    IN  IF m.stack_pointer = 0 /\ Overflows(m)
        THEN Panic(m1, "attempt to subtract with overflow")
        ELSE [m1 EXCEPT !.stack_pointer = U8(@ + 255)]

\* 0x00EE popping the slot below the one the call wrote
return_from_subroutine_below(m) ==
    IF m.stack_pointer = 0
    THEN Panic(m, "Stack pointer is 0, cannot return from subroutine")
    ELSE [m EXCEPT !.program_counter = m.stack[m.stack_pointer - 1],
                   !.stack_pointer = @ - 1]

\* 0x00EE
return_from_subroutine(m) ==
    IF m.stack_pointer = 0
    THEN Panic(m, "Stack pointer is 0, cannot return from subroutine")
    ELSE IF m.stack_pointer >= STACK_LEN
    THEN Panic(m, "index out of bounds: stack")
    ELSE [m EXCEPT !.program_counter = m.stack[m.stack_pointer],
                   !.stack_pointer = @ - 1]

\* 0x1NNN
jump_to_address(m, address) ==
    [m EXCEPT !.program_counter = address]

\* 0x2NNN
call_subroutine_at_address(m, address) ==
    IF m.stack_pointer + 1 > 255 /\ Overflows(m)
    THEN Panic(m, "attempt to add with overflow")
    ELSE LET m1 == [m EXCEPT !.stack_pointer = U8(@ + 1)]
         IN  IF m1.stack_pointer >= STACK_LEN
             THEN Panic(m1, "index out of bounds: stack")
             ELSE [m1 EXCEPT !.stack[m1.stack_pointer] = U16(m1.program_counter),
                             !.program_counter = address]

\* 0x3XNN skipping one byte instead of one instruction
skip_if_equal_to_value_one_byte(m, register, value) ==
    IF m.registers[register] = value
    THEN [m EXCEPT !.program_counter = @ + 1]
    ELSE m

\* 0x3XNN
skip_if_equal_to_value(m, register, value) ==
    IF m.registers[register] = value
    THEN [m EXCEPT !.program_counter = @ + 2]
    ELSE m

\* 0x4XNN
skip_if_not_equal_to_value(m, register, value) ==
    IF m.registers[register] # value
    THEN [m EXCEPT !.program_counter = @ + 2]
    ELSE m

\* 0x5XY0
skip_if_equal_to_register(m, x_register, y_register) ==
    IF m.registers[x_register] = m.registers[y_register]
    THEN [m EXCEPT !.program_counter = @ + 2]
    ELSE m

\* 0x6XNN
set_register_to_value(m, register, value) ==
    [m EXCEPT !.registers[register] = value]

\* 0x7XNN
add_value_to_register(m, register, value) ==
    [m EXCEPT !.registers[register] = U8(@ + value)]

\* 0x8XY0
set_register_to_register(m, x_register, y_register) ==
    [m EXCEPT !.registers[x_register] = m.registers[y_register]]

\* The flag register is forced to 0 after a logic operation under the quirk.
ResetFlag(m) ==
    IF m.quirks.reset_flag THEN [m EXCEPT !.registers[15] = 0] ELSE m

\* 0x8XY1
or_register_with_register(m, x_register, y_register) ==
    ResetFlag([m EXCEPT !.registers[x_register] = BitOr(@, m.registers[y_register])])

\* 0x8XY2
and_register_with_register(m, x_register, y_register) ==
    ResetFlag([m EXCEPT !.registers[x_register] = BitAnd(@, m.registers[y_register])])

\* 0x8XY3
xor_register_with_register(m, x_register, y_register) ==
    ResetFlag([m EXCEPT !.registers[x_register] = BitXor(@, m.registers[y_register])])

\* 0x8XY4 writing the flag before the result, so that the result wins in VF
add_register_to_register_result_last(m, x_register, y_register) ==
    LET sum      == m.registers[x_register] + m.registers[y_register]
        result   == U8(sum)
        overflow == sum > 255
        m1       == [m EXCEPT !.registers[15] = IF overflow THEN 1 ELSE 0]
    IN  [m1 EXCEPT !.registers[x_register] = result]

\* 0x8XY4
add_register_to_register(m, x_register, y_register) ==
    LET sum      == m.registers[x_register] + m.registers[y_register]
        result   == U8(sum)
        overflow == sum > 255
        m1       == [m EXCEPT !.registers[x_register] = result]
    IN  [m1 EXCEPT !.registers[15] = IF overflow THEN 1 ELSE 0]

\* 0x8XY5 with the flag set on a borrow instead of on no borrow
subtract_register_from_register_borrow(m, x_register, y_register) ==
    LET difference == m.registers[x_register] - m.registers[y_register]
        result     == U8(difference + 256)
        overflow   == difference < 0
        m1         == [m EXCEPT !.registers[x_register] = result]
    IN  [m1 EXCEPT !.registers[15] = IF overflow THEN 1 ELSE 0]

\* 0x8XY5
subtract_register_from_register(m, x_register, y_register) ==
    LET difference == m.registers[x_register] - m.registers[y_register]
        result     == U8(difference + 256)
        overflow   == difference < 0
        m1         == [m EXCEPT !.registers[x_register] = result]
    IN  [m1 EXCEPT !.registers[15] = IF ~overflow THEN 1 ELSE 0]

\* 0x8XY6 shifting VX in place whatever the quirk says
set_register_to_right_shifted_register_in_place(m, x_register, y_register) ==
    LET shift == m.registers[x_register] % 2
        m2    == [m EXCEPT !.registers[x_register] = Shr(@, 1)]
    IN  [m2 EXCEPT !.registers[15] = shift]

\* 0x8XY6
set_register_to_right_shifted_register(m, x_register, y_register) ==
    LET m1    == IF ~m.quirks.shift_in_place
                 THEN [m EXCEPT !.registers[x_register] = m.registers[y_register]]
                 ELSE m
        shift == m1.registers[x_register] % 2          \* & 0x01
        m2    == [m1 EXCEPT !.registers[x_register] = Shr(@, 1)]
    IN  [m2 EXCEPT !.registers[15] = shift]

\* 0x8XY7
subtract_register_from_register_flipped(m, x_register, y_register) ==
    LET difference == m.registers[y_register] - m.registers[x_register]
        result     == U8(difference + 256)
        overflow   == difference < 0
        m1         == [m EXCEPT !.registers[x_register] = result]
    IN  [m1 EXCEPT !.registers[15] = IF ~overflow THEN 1 ELSE 0]

\* 0x8XYE
set_register_to_left_shifted_register(m, x_register, y_register) ==
    LET m1    == IF ~m.quirks.shift_in_place
                 THEN [m EXCEPT !.registers[x_register] = m.registers[y_register]]
                 ELSE m
        shift == (m1.registers[x_register] \div 128) % 2  \* (& 0x80) >> 7
        m2    == [m1 EXCEPT !.registers[x_register] = U8(@ * 2)]
    IN  [m2 EXCEPT !.registers[15] = shift]

\* 9XY0
skip_if_not_equal_to_register(m, x_register, y_register) ==
    IF m.registers[x_register] # m.registers[y_register]
    THEN [m EXCEPT !.program_counter = @ + 2]
    ELSE m

\* 0xANNN
set_index_register_to_value(m, value) ==
    [m EXCEPT !.index_register = value]

\* 0xBNNN
jump_to_address_with_offset(m, x_register, address) ==
    LET offset == IF m.quirks.jump_plus_x_register
                  THEN m.registers[x_register]
                  ELSE m.registers[0]
    IN  IF address + offset > 65535 /\ Overflows(m)
        THEN Panic(m, "attempt to add with overflow")
        ELSE [m EXCEPT !.program_counter = U16(address + offset)]

\* 0xCXNN; random_value is the byte rand::random::<u8>() returned
set_register_to_random(m, register, value, random_value) ==
    [m EXCEPT !.registers[register] = BitAnd(random_value, value)]

(***************************************************************************)
(* 0xDXYN  Chip8::display.  DrawColumns is the inner loop (column in 0..8) *)
(* from `column` on, DrawRows the outer loop (row in 0..height) from `row` *)
(* on; both leave their loop at the first coordinate off the screen.       *)
(***************************************************************************)
\* DrawColumns with a sprite pixel that sets its cell instead of toggling it
RECURSIVE DrawColumnsOr(_, _, _, _, _)
DrawColumnsOr(m, sprite_data, x_coordinate, current_y_coordinate, column) ==
    IF column >= 8 THEN m
    ELSE LET current_x_coordinate == x_coordinate + column
         IN  IF current_x_coordinate >= DISPLAY_WIDTH THEN m
             ELSE LET current_coordinate ==
                          current_x_coordinate + current_y_coordinate * DISPLAY_WIDTH
                      m1 == IF current_coordinate \in m.display_buffer
                            THEN [m EXCEPT !.registers[15] = 1]
                            ELSE m
                      sprite_pixel == Shr(sprite_data, 7 - column) % 2
                      m2 == IF sprite_pixel = 1
                            THEN [m1 EXCEPT !.display_buffer =
                                     @ \cup {current_coordinate}]
                            ELSE m1
                  IN  DrawColumnsOr(m2, sprite_data, x_coordinate,
                                    current_y_coordinate, column + 1)

\* DrawColumns with columns past the right edge wrapped to the left edge
RECURSIVE DrawColumnsWrap(_, _, _, _, _)
DrawColumnsWrap(m, sprite_data, x_coordinate, current_y_coordinate, column) ==
    IF column >= 8 THEN m
    ELSE LET current_x_coordinate == (x_coordinate + column) % DISPLAY_WIDTH
             current_coordinate ==
                 current_x_coordinate + current_y_coordinate * DISPLAY_WIDTH
             m1 == IF current_coordinate \in m.display_buffer
                   THEN [m EXCEPT !.registers[15] = 1]
                   ELSE m
             sprite_pixel == Shr(sprite_data, 7 - column) % 2
             m2 == IF sprite_pixel = 1
                   THEN [m1 EXCEPT !.display_buffer =
                            IF current_coordinate \in @
                            THEN @ \ {current_coordinate}
                            ELSE @ \cup {current_coordinate}]
                   ELSE m1
         IN  DrawColumnsWrap(m2, sprite_data, x_coordinate,
                             current_y_coordinate, column + 1)

RECURSIVE DrawColumns(_, _, _, _, _)
DrawColumns(m, sprite_data, x_coordinate, current_y_coordinate, column) ==
    IF column >= 8 THEN m
    ELSE LET current_x_coordinate == x_coordinate + column
         IN  IF current_x_coordinate >= DISPLAY_WIDTH THEN m
             ELSE LET current_coordinate ==
                          current_x_coordinate + current_y_coordinate * DISPLAY_WIDTH
                      m1 == IF current_coordinate \in m.display_buffer
                            THEN [m EXCEPT !.registers[15] = 1]
                            ELSE m
                      sprite_pixel == Shr(sprite_data, 7 - column) % 2
                      m2 == IF sprite_pixel = 1
                            THEN [m1 EXCEPT !.display_buffer =
                                     IF current_coordinate \in @
                                     THEN @ \ {current_coordinate}
                                     ELSE @ \cup {current_coordinate}]
                            ELSE m1
                  IN  DrawColumns(m2, sprite_data, x_coordinate,
                                  current_y_coordinate, column + 1)

RECURSIVE DrawRows(_, _, _, _, _)
DrawRows(m, x_coordinate, y_coordinate, height, row) ==
    IF row >= height THEN m
    ELSE LET current_y_coordinate == y_coordinate + row
         IN  IF current_y_coordinate >= DISPLAY_HEIGHT THEN m
             ELSE IF m.index_register + row > 65535 /\ Overflows(m)
             THEN Panic(m, "attempt to add with overflow")
             ELSE IF U16(m.index_register + row) >= RAM_LEN
             THEN Panic(m, "index out of bounds: ram")
             ELSE LET sprite_data == RamGet(m.ram, U16(m.index_register + row))
                      m1 == DrawColumns(m, sprite_data, x_coordinate,
                                        current_y_coordinate, 0)
                  IN  DrawRows(m1, x_coordinate, y_coordinate, height, row + 1)

display(m, x_register, y_register, height) ==
    LET x_coordinate == m.registers[x_register] % DISPLAY_WIDTH
        y_coordinate == m.registers[y_register] % DISPLAY_HEIGHT
        m1 == [m EXCEPT !.registers[15] = 0]
        m2 == DrawRows(m1, x_coordinate, y_coordinate, height, 0)
    IN  IF Running(m2) THEN [m2 EXCEPT !.update_display = TRUE] ELSE m2

\* 0xEX9E
skip_if_key_pressed(m, register, pressed_keys) ==
    LET key == m.registers[register]
    IN  IF key \in pressed_keys
        THEN [m EXCEPT !.program_counter = @ + 2]
        ELSE m

\* 0xEXA1
skip_if_key_not_pressed(m, register, pressed_keys) ==
    LET key == m.registers[register]
    IN  IF key \notin pressed_keys
        THEN [m EXCEPT !.program_counter = @ + 2]
        ELSE m

\* 0xFX07
set_register_to_delay_timer(m, register) ==
    [m EXCEPT !.registers[register] = m.delay_timer]

\* 0xFX0A that goes on to the next instruction when no key is pressed
set_register_to_key_with_wait_no_rewind(m, register, pressed_keys, first_key) ==
    IF pressed_keys = {}
    THEN m
    ELSE [m EXCEPT !.registers[register] = first_key]

\* 0xFX0A; first_key is the element pressed_keys.iter().next() yields, any
\* element of the set (the iteration order of a HashSet is unspecified)
set_register_to_key_with_wait(m, register, pressed_keys, first_key) ==
    IF pressed_keys = {}
    THEN [m EXCEPT !.program_counter = @ - 2]
    ELSE [m EXCEPT !.registers[register] = first_key]

\* 0xFX15
set_delay_timer_to_register(m, register) ==
    [m EXCEPT !.delay_timer = m.registers[register]]

\* 0xFX18
set_sound_timer_to_register(m, register) ==
    [m EXCEPT !.sound_timer = m.registers[register]]

\* 0xFX1E
add_register_to_index_register(m, register) ==
    LET sum == m.index_register + m.registers[register]
    IN  IF sum > 65535 /\ Overflows(m)
        THEN Panic(m, "attempt to add with overflow")
        ELSE [m EXCEPT !.index_register = U16(sum)]

\* 0xFX29
set_index_register_to_font_sprite(m, register) ==
    LET product == m.registers[register] * 5
    IN  IF product > 255 /\ Overflows(m)
        THEN Panic(m, "attempt to multiply with overflow")
        ELSE LET font_sprite == U8(product)
             IN  [m EXCEPT !.index_register = font_sprite + FONT_START]

\* A store whose address past the end of ram wraps around to the start
RamStoreWrap(m, address, value) ==
    IF ~Running(m) THEN m
    ELSE [m EXCEPT !.ram = RamSet(@, address % RAM_LEN, value)]

\* One indexed store ram[address] = value; an address past the end panics.
RamStore(m, address, value) ==
    IF ~Running(m) THEN m
    ELSE IF address >= RAM_LEN THEN Panic(m, "index out of bounds: ram")
    ELSE [m EXCEPT !.ram = RamSet(@, address, value)]

\* 0xFX33 writing one address too far: I+1, I+2, I+3
set_index_register_to_bcd_shifted(m, register) ==
    LET value    == m.registers[register]
        hundreds == value \div 100
        tens     == (value \div 10) % 10
        ones     == value % 10
        m1 == RamStore(m, m.index_register + 1, hundreds)
        m2 == RamStore(m1, m.index_register + 2, tens)
    IN  RamStore(m2, m.index_register + 3, ones)

\* 0xFX33 with the tens digit not reduced modulo 10
set_index_register_to_bcd_tens(m, register) ==
    LET value    == m.registers[register]
        hundreds == value \div 100
        tens     == value \div 10
        ones     == value % 10
        m1 == RamStore(m, m.index_register, hundreds)
        m2 == RamStore(m1, m.index_register + 1, tens)
    IN  RamStore(m2, m.index_register + 2, ones)

\* 0xFX33
set_index_register_to_bcd(m, register) ==
    LET value    == m.registers[register]
        hundreds == value \div 100
        tens     == (value \div 10) % 10
        ones     == value % 10
        m1 == RamStore(m, m.index_register, hundreds)
        m2 == RamStore(m1, m.index_register + 1, tens)
    IN  RamStore(m2, m.index_register + 2, ones)

\* 0xFX55 with the loop `for i in 0..x`, which leaves out register x
RECURSIVE StoreRegistersExclusive(_, _, _)
StoreRegistersExclusive(m, x, i) ==
    IF i >= x \/ ~Running(m) THEN m
    ELSE IF m.quirks.increment_index_register
    THEN LET m1 == RamStore(m, m.index_register, m.registers[i])
         IN  IF ~Running(m1) THEN m1
             ELSE StoreRegistersExclusive([m1 EXCEPT !.index_register = U16(@ + 1)],
                                          x, i + 1)
    ELSE StoreRegistersExclusive(RamStore(m, m.index_register + i, m.registers[i]),
                                 x, i + 1)

\* 0xFX55: the loop `for i in 0..=x` from i on
RECURSIVE StoreRegisters(_, _, _)
StoreRegisters(m, x, i) ==
    IF i > x \/ ~Running(m) THEN m
    ELSE IF m.quirks.increment_index_register
    THEN LET m1 == RamStore(m, m.index_register, m.registers[i])
         IN  IF ~Running(m1) THEN m1
             ELSE StoreRegisters([m1 EXCEPT !.index_register = U16(@ + 1)], x, i + 1)
    ELSE StoreRegisters(RamStore(m, m.index_register + i, m.registers[i]), x, i + 1)

store_registers_in_memory(m, x) ==
    StoreRegisters(m, x, 0)

\* 0xFX65 reading ram[I] for every register when the quirk is disabled,
\* without the running offset
RECURSIVE LoadRegistersNoOffset(_, _, _)
LoadRegistersNoOffset(m, x, i) ==
    IF i > x \/ ~Running(m) THEN m
    ELSE IF m.index_register >= RAM_LEN
    THEN Panic(m, "index out of bounds: ram")
    ELSE LoadRegistersNoOffset(
             [m EXCEPT !.registers[i] = RamGet(m.ram, m.index_register),
                       !.index_register =
                           IF m.quirks.increment_index_register
                           THEN U16(@ + 1) ELSE @], x, i + 1)

\* 0xFX65: the loop `for i in 0..=x` from i on
RECURSIVE LoadRegisters(_, _, _)
LoadRegisters(m, x, i) ==
    IF i > x \/ ~Running(m) THEN m
    ELSE IF m.quirks.increment_index_register
    THEN IF m.index_register >= RAM_LEN
         THEN Panic(m, "index out of bounds: ram")
         ELSE LoadRegisters([m EXCEPT !.registers[i] = RamGet(m.ram, m.index_register),
                                      !.index_register = U16(@ + 1)], x, i + 1)
    ELSE IF m.index_register + i >= RAM_LEN
         THEN Panic(m, "index out of bounds: ram")
         ELSE LoadRegisters([m EXCEPT !.registers[i] =
                                         RamGet(m.ram, m.index_register + i)],
                            x, i + 1)

load_registers_from_memory(m, x) ==
    LoadRegisters(m, x, 0)

(***************************************************************************)
(* The match of Chip8::cycle on the decoded instruction.                   *)
(***************************************************************************)
Unrecognized(m) ==
    Panic(m, "Unrecognized instruction")

execute(m, p, pressed_keys, first_key, random_value) ==
    CASE p.opcode = 0 ->
            (CASE p.nn = 224 -> clear_screen(m)
               [] p.nn = 238 -> return_from_subroutine(m)
               [] OTHER -> Unrecognized(m))
      [] p.opcode = 16 -> jump_to_address(m, p.nnn)
      [] p.opcode = 32 -> call_subroutine_at_address(m, p.nnn)
      [] p.opcode = 48 -> skip_if_equal_to_value(m, p.x, p.nn)
      [] p.opcode = 64 -> skip_if_not_equal_to_value(m, p.x, p.nn)
      [] p.opcode = 80 -> skip_if_equal_to_register(m, p.x, p.y)
      [] p.opcode = 96 -> set_register_to_value(m, p.x, p.nn)
      [] p.opcode = 112 -> add_value_to_register(m, p.x, p.nn)
      [] p.opcode = 128 ->
            (CASE p.n = 0 -> set_register_to_register(m, p.x, p.y)
               [] p.n = 1 -> or_register_with_register(m, p.x, p.y)
               [] p.n = 2 -> and_register_with_register(m, p.x, p.y)
               [] p.n = 3 -> xor_register_with_register(m, p.x, p.y)
               [] p.n = 4 -> add_register_to_register(m, p.x, p.y)
               [] p.n = 5 -> subtract_register_from_register(m, p.x, p.y)
               [] p.n = 6 -> set_register_to_right_shifted_register(m, p.x, p.y)
               [] p.n = 7 -> subtract_register_from_register_flipped(m, p.x, p.y)
               [] p.n = 14 -> set_register_to_left_shifted_register(m, p.x, p.y)
               [] OTHER -> Unrecognized(m))
      [] p.opcode = 144 -> skip_if_not_equal_to_register(m, p.x, p.y)
      [] p.opcode = 160 -> set_index_register_to_value(m, p.nnn)
      [] p.opcode = 176 -> jump_to_address_with_offset(m, p.x, p.nnn)
      [] p.opcode = 192 -> set_register_to_random(m, p.x, p.nn, random_value)
      [] p.opcode = 208 -> display(m, p.x, p.y, p.n)
      [] p.opcode = 224 ->
            (CASE p.nn = 158 -> skip_if_key_pressed(m, p.x, pressed_keys)
               [] p.nn = 161 -> skip_if_key_not_pressed(m, p.x, pressed_keys)
               [] OTHER -> Unrecognized(m))
      [] p.opcode = 240 ->
            (CASE p.nn = 7 -> set_register_to_delay_timer(m, p.x)
               [] p.nn = 10 -> set_register_to_key_with_wait(m, p.x, pressed_keys,
                                                             first_key)
               [] p.nn = 21 -> set_delay_timer_to_register(m, p.x)
               [] p.nn = 24 -> set_sound_timer_to_register(m, p.x)
               [] p.nn = 30 -> add_register_to_index_register(m, p.x)
               [] p.nn = 41 -> set_index_register_to_font_sprite(m, p.x)
               [] p.nn = 51 -> set_index_register_to_bcd(m, p.x)
               [] p.nn = 85 -> store_registers_in_memory(m, p.x)
               [] p.nn = 101 -> load_registers_from_memory(m, p.x)
               [] OTHER -> Unrecognized(m))
      [] OTHER -> Unrecognized(m)

\* Display::render_buffer, as far as the machine sees it: the canvas shows
\* the buffer it was given, and one more presentation has been made.
render_buffer(m, buffer) ==
    [m EXCEPT !.canvas = buffer, !.renders = @ + 1]

(***************************************************************************)
(* Chip8::cycle: fetch, decode, execute, and present the framebuffer if    *)
(* the instruction marked it dirty.                                        *)
(***************************************************************************)
cycle(m, pressed_keys, first_key, random_value) ==
    LET f  == fetch_instruction(m)
        parsed_instruction == ParsedInstructionBuild(f.instruction)
        m1 == IF Running(f.m)
              THEN execute(f.m, parsed_instruction, pressed_keys, first_key,
                           random_value)
              ELSE f.m
    IN  IF Running(m1) /\ m1.update_display
        THEN [render_buffer(m1, m1.display_buffer) EXCEPT !.update_display = FALSE]
        ELSE m1

(***************************************************************************)
(* Chip8::run.  The fields of Chip8 that only the scheduler uses are the   *)
(* record `scheduler`:                                                     *)
(*   instruction_time, last_instruction_time, last_decrement_timer_time    *)
(*   epoch_ns   the last value get_epoch_ns() returned                     *)
(*   running    the loop 'running has not been left                        *)
(* get_epoch_ns() reads SystemTime, the wall clock, as u128 nanoseconds:   *)
(* a reading may be less than an earlier one.                              *)
(***************************************************************************)
BuildScheduler(instruction_time, current_epoch_ns) ==
    [instruction_time          |-> instruction_time,
     last_instruction_time     |-> current_epoch_ns,
     last_decrement_timer_time |-> current_epoch_ns,
     epoch_ns                  |-> current_epoch_ns,
     running                   |-> TRUE]

\* the events of the SDL event queue the loop tells apart: Event::Quit,
\* KeyDown of Escape, KeyDown of Return, any other event
Events ==
    {"Quit", "Escape", "Return", "Other"}

\* A u128 is held as the integer congruent to it modulo 2^128 that is
\* least in absolute value: n stands for n below 2^127, and -k stands for
\* 2^128 - k.  The wrapping difference of two u128 is then the difference
\* of the integers (the values of the model lie within 2^31 of 0 or of
\* 2^128).  GeU128 is the comparison a >= b of the u128 values: the
\* values that -k stands for are above the ones n stands for.
GeU128(a, b) ==
    IF (a < 0) = (b < 0) THEN a >= b ELSE a < 0

\* The u128 subtraction current_epoch_ns - last_epoch_ns does not fit: the
\* clock reading is less than the reading it is compared with
Underflows(current_epoch_ns, last_epoch_ns) ==
    ~GeU128(current_epoch_ns, last_epoch_ns)

\* The test `current_epoch_ns - last_epoch_ns >= time` where the
\* subtraction did not panic.  A difference that does not fit has wrapped
\* to 2^128 - (last_epoch_ns - current_epoch_ns), and that value is
\* compared with the interval.
ElapsedU128(current_epoch_ns, last_epoch_ns, time) ==
    GeU128(current_epoch_ns - last_epoch_ns, time)

\* The body of `if valid_decrement_timer_time`: both timers, each guarded,
\* and the call of the audio sink; `audio` is the calls made.
TimerTick(m) ==
    LET m1 == IF m.delay_timer > 0
              THEN [m EXCEPT !.delay_timer = @ - 1]
              ELSE m
    IN  IF m1.sound_timer > 0
        THEN [m |-> [m1 EXCEPT !.sound_timer = @ - 1], audio |-> <<"play">>]
        ELSE [m |-> m1, audio |-> <<"stop">>]

\* The top of an iteration of the loop 'running, down to the snapshot of
\* the pressed keys: the cadence test on the clock reading and the timer
\* decrement.  The result holds the machine m, the scheduler fields s and
\* the audio calls made.  With overflow checks a reading less than
\* last_decrement_timer_time panics in the subtraction.
TimerCheck(m, s, current_epoch_ns) ==
    LET valid_decrement_timer_time ==
            ElapsedU128(current_epoch_ns, s.last_decrement_timer_time,
                        TIMER_DECREMENT_TIME)
        tick == TimerTick(m)
        s0 == [s EXCEPT !.epoch_ns = current_epoch_ns]
    IN  IF Underflows(current_epoch_ns, s.last_decrement_timer_time)
           /\ Overflows(m)
        THEN [m |-> Panic(m, "attempt to subtract with overflow"),
              s |-> s0, audio |-> <<>>]
        ELSE IF valid_decrement_timer_time
        THEN [m |-> tick.m,
              s |-> [s0 EXCEPT !.last_decrement_timer_time = current_epoch_ns],
              audio |-> tick.audio]
        ELSE [m |-> m, s |-> s0, audio |-> <<>>]

\* The event loop that notes a quit and goes on to the events behind it
RECURSIVE PollEventsPastQuit(_, _, _, _, _, _)
PollEventsPastQuit(r, events, i, pressed_keys, first_key, random_values) ==
    IF i > Len(events) \/ ~Running(r.m) THEN r
    ELSE IF events[i] \in {"Quit", "Escape"}
    THEN PollEventsPastQuit([r EXCEPT !.quit = TRUE], events, i + 1,
                            pressed_keys, first_key, random_values)
    ELSE IF events[i] = "Return" /\ r.m.debug
    THEN LET f == fetch_instruction(r.m)
         IN  PollEventsPastQuit(
                [r EXCEPT
                   !.m = cycle(r.m, pressed_keys, first_key,
                               random_values[Len(r.ran) + 1]),
                   !.before = r.m,
                   !.ran = Append(@, IF Running(f.m) THEN f.instruction ELSE -1)],
                events, i + 1, pressed_keys, first_key, random_values)
    ELSE PollEventsPastQuit(r, events, i + 1, pressed_keys, first_key,
                            random_values)

\* The loop `for event in event_pump.poll_iter()` from the i-th event of
\* the queue on.  r.m is the machine, r.quit says that `break 'running` was
\* taken, r.ran is the instruction words of the cycles run (-1: the fetch
\* failed), r.before the machine before the last of them (r.s and r.audio,
\* the scheduler fields and the audio calls of the iteration, are passed
\* through).  pressed_keys is the one snapshot of the iteration; every
\* cycle draws its own random byte: the k-th cycle of the iteration uses
\* random_values[k].
RECURSIVE PollEvents(_, _, _, _, _, _)
PollEvents(r, events, i, pressed_keys, first_key, random_values) ==
    IF i > Len(events) \/ r.quit \/ ~Running(r.m) THEN r
    ELSE IF events[i] \in {"Quit", "Escape"}
    THEN [r EXCEPT !.quit = TRUE]
    ELSE IF events[i] = "Return" /\ r.m.debug
    THEN LET f == fetch_instruction(r.m)
         IN  PollEvents(
                [r EXCEPT
                   !.m = cycle(r.m, pressed_keys, first_key,
                               random_values[Len(r.ran) + 1]),
                   !.before = r.m,
                   !.ran = Append(@, IF Running(f.m) THEN f.instruction ELSE -1)],
                events, i + 1, pressed_keys, first_key, random_values)
    ELSE PollEvents(r, events, i + 1, pressed_keys, first_key, random_values)

\* The end of an iteration of the loop 'running, after the events were
\* polled: the loop is left, or the interval test is made on the clock
\* reading of the top of the loop and the timed cycle is run in normal
\* mode.  The test is made in debug mode too; with overflow checks a
\* reading less than last_instruction_time panics in its subtraction.  A
\* cycle that panics leaves the loop before the clock is read again:
\* last_instruction_time keeps its value.
TimedCycle(polled, s, current_epoch_ns, pressed_keys, first_key, random_values, cycle_epoch_ns) ==
    LET valid_cycle_time ==
            ElapsedU128(current_epoch_ns, s.last_instruction_time,
                        s.instruction_time)
        f == fetch_instruction(polled.m)
        next == cycle(polled.m, pressed_keys, first_key,
                      random_values[Len(polled.ran) + 1])
    IN  IF polled.quit
        THEN [polled EXCEPT !.s = [s EXCEPT !.running = FALSE]]
        ELSE IF ~Running(polled.m)
        THEN [polled EXCEPT !.s = s]
        ELSE IF Underflows(current_epoch_ns, s.last_instruction_time)
                /\ Overflows(polled.m)
        THEN [polled EXCEPT
                !.m = Panic(polled.m, "attempt to subtract with overflow"),
                !.s = s]
        ELSE IF valid_cycle_time /\ ~polled.m.debug
        THEN [polled EXCEPT
                !.m = next,
                !.before = polled.m,
                !.ran = Append(@, IF Running(f.m) THEN f.instruction ELSE -1),
                !.s = IF Running(next)
                      THEN [s EXCEPT !.last_instruction_time = cycle_epoch_ns,
                                     !.epoch_ns = cycle_epoch_ns]
                      ELSE s]
        ELSE [polled EXCEPT !.s = s]

\* One iteration of the loop 'running.  current_epoch_ns is the clock
\* reading at its top, cycle_epoch_ns the reading taken after the timed
\* cycle, random_values the random bytes its cycles draw, in order.  The
\* result holds the machine m, the scheduler fields s, the audio calls
\* made, whether the loop was left, and the cycles run.
RunIteration(m, s, current_epoch_ns, pressed_keys, first_key, random_values, events, cycle_epoch_ns) ==
    LET top == TimerCheck(m, s, current_epoch_ns)
    IN  TimedCycle(PollEvents([m |-> top.m, s |-> top.s, audio |-> top.audio,
                               quit |-> FALSE, ran |-> <<>>, before |-> m],
                              events, 1, pressed_keys, first_key, random_values),
                   top.s, current_epoch_ns, pressed_keys, first_key,
                   random_values, cycle_epoch_ns)

(***************************************************************************)
(* The inputs of the exploration.                                          *)
(***************************************************************************)
\* the bytes rand::random::<u8>() may return: those near 0, 128 and 256
RandomBytes ==
    {b \in 0 .. 255 :
        \E c \in {0, 128, 256} : b - c < MaxRand /\ c - b < MaxRand}

\* the snapshots of pressed keys the scheduler may hand to a cycle
KeySets ==
    SUBSET (0 .. MaxKey - 1)

\* a program image: the bytes of a sequence of 16-bit words, big endian
RomBytes(words) ==
    [i \in 1 .. 2 * Len(words) |->
        IF i % 2 = 1 THEN words[(i + 1) \div 2] \div 256
                     ELSE words[i \div 2] % 256]

\* address of the k-th word (from 0) of a program image
WordAt(k) ==
    PROGRAM_START + 2 * k

RegisterPairs ==
    {0, 1, 15} \X {0, 1, 15}

\* VX := random; VY := random; 8XYN
AluRoms ==
    {<<49407 + 256 * xy[1], 49407 + 256 * xy[2],
       32768 + 256 * xy[1] + 16 * xy[2] + n>> :
        xy \in RegisterPairs, n \in (0 .. 7) \cup {14}}

SpriteRows ==
    {0, 128, 255}

\* I := sprite; V0 := random; V1 := random; draw; V0 := random; draw;
\* halt: jump to self; sprite rows (s1, s2, s1, ...)
DrawRoms ==
    {<<40960 + WordAt(7), 49407, 49663, 53264 + n, 49407, 53264 + n,
       4096 + WordAt(6)>>
     \o [i \in 1 .. (MaxHeight + 1) \div 2 |-> 256 * s[1] + s[2]] :
        n \in 0 .. MaxHeight, s \in SpriteRows \X SpriteRows}

\* I := i0; V0 := random; V1 := random; FX55 / FX65; FX65 / FX55
MemRoms ==
    {<<40960 + i0, 49407, 49663, 61440 + 256 * x + op[1],
       61440 + 256 * x + op[2]>> :
        i0 \in {768, RAM_LEN - 2}, x \in {0, 1, 2, 15},
        op \in {<<85, 101>>, <<101, 85>>}}

\* the instruction words of the control-flow programs: return; jump to the
\* third word; jump to an odd address of the empty memory behind the
\* program; call of the third word; jump with offset into the empty memory;
\* skip if V0 = 0; key wait into V0
FlowWords ==
    {238, 4096 + WordAt(2), 4096 + 769, 8192 + WordAt(2), 45056 + 768,
     12288, 61450}

FlowRoms ==
    [1 .. MaxRomLen -> FlowWords]

\* main: call A; call B; halt.  A: call B; return.  B: return.
\* and the same with both subroutines returning twice
CallRoms ==
    {<<8192 + WordAt(3), 8192 + WordAt(5), 4096 + WordAt(2),
       8192 + WordAt(5), 238, 238>>,
     <<8192 + WordAt(2), 238, 8192 + WordAt(4), 238, 238>>}

\* the values the index register is set to before V0 is added to it: just
\* below the font, at its last byte, and at the last bytes of memory
IndexBases ==
    {FONT_START - 1, FONT_END - 1, RAM_LEN - 3, RAM_LEN - 1}

\* draw V0 V1 2; BCD of V1; store V0..V1; load V0..V1; font sprite of V1
IndexOps ==
    {53266, 61747, 61781, 61797, 61737}

\* I := base; V0 := random; V1 := random; I += V0; an instruction that uses I
\* and: V0 := 0x60; I := 0xFFE; store V0..V1 (the instruction 6000 in the
\* last two bytes of memory); jump to 0xFFE
\* and: jump to 0xFFF, the last byte of memory
IndexRoms ==
    {<<40960 + base, 49407, 49663, 61470, op>> :
        base \in IndexBases, op \in IndexOps}
    \cup {<<24672, 40960 + (RAM_LEN - 2), 61781, 4096 + (RAM_LEN - 2)>>,
          <<4096 + (RAM_LEN - 1)>>}

\* I := sprite; V0 := random; V1 := random; draw; clear screen; halt; sprite
ClearRoms ==
    {<<40960 + WordAt(6), 49407, 49663, 53266, 224, 4096 + WordAt(5),
       256 * s[1] + s[2]>> : s \in SpriteRows \X SpriteRows}

\* one-instruction programs: every first nibble and every low byte, with
\* second nibble 0 and 1
DecodeRoms ==
    {<<opcode * 4096 + x * 256 + nn>> :
        opcode \in 0 .. 15, x \in 0 .. 1, nn \in 0 .. 255}

\* the draws with the flag register as a coordinate: DFF1, D0F1, DF01
FlagDraws ==
    {57329, 53489, 57089}

\* I := sprite; VF := random; draw; draw again; halt; sprite
FlagDrawRoms ==
    {<<40960 + WordAt(5), 53247, draw, draw, 4096 + WordAt(4),
       256 * s[1] + s[2]>> : draw \in FlagDraws, s \in SpriteRows \X SpriteRows}

\* a place in the empty memory behind the programs
ScratchAddress ==
    PROGRAM_START + 256

\* V0..VF := the first sixteen bytes of the font; then
\*   I := scratch; store V0..VX; load V0..VX
\*   I := the second glyph of the font; load V0..VX
BlockRoms ==
    {<<40960 + FONT_START, 65381, 40960 + ScratchAddress,
       61440 + 256 * x + 85, 61440 + 256 * x + 101>> : x \in 0 .. 15}
    \cup {<<40960 + FONT_START, 65381, 40960 + FONT_START + 5,
             61440 + 256 * x + 101>> : x \in 0 .. 15}

\* the numbers of calls the nested-call programs make without a return:
\* one, one less than the stack has entries, as many, and one more
NestDepths ==
    {1, STACK_LEN - 1, STACK_LEN, STACK_LEN + 1}

\* the program of depth n: call S1; halt; then the subroutines S1 .. Sn-1,
\* each `call the next subroutine; return`, and Sn, a return alone.  The
\* k-th call is the word 2(k-1) and its return address the word 2k-1.
NestRom(n) ==
    [i \in 1 .. 2 * n + 1 |->
        IF i = 2 THEN 4096 + WordAt(1)
        ELSE IF i % 2 = 1 /\ i < 2 * n + 1 THEN 8192 + WordAt(i + 1)
        ELSE 238]

NestRoms ==
    {NestRom(n) : n \in NestDepths}

\* the cycles of the longest nested-call program: its calls, its returns,
\* and the halt twice
MaxNestCycles ==
    2 * (STACK_LEN + 1) + 2

\* V0 := t; delay timer := V0; sound timer := V0; V1 := delay timer; halt
TimerRoms ==
    {<<24576 + t, 61461, 61464, 61703, 4096 + WordAt(4)>> : t \in 0 .. MaxTimer}

\* the contents of the event queue when the loop polls it: nothing; one
\* and two single-step triggers; another event; a quit or a terminate key,
\* alone, before a trigger, and between two triggers
EventQueues ==
    {<<>>, <<"Return">>, <<"Return", "Return">>, <<"Other">>,
     <<"Quit">>, <<"Escape", "Return">>, <<"Return", "Quit", "Return">>}

\* the change of the clock from its last reading to the reading at the top
\* of the loop: a step back of the wall clock (of 2 ns), none, the
\* instruction interval (the default one), the timer cadence (the readings
\* are not negative)
ClockSteps(s) ==
    {step \in {-2, 0, INSTRUCTION_TIME, TIMER_DECREMENT_TIME} :
        s.epoch_ns + step >= 0}

\* the reading of the clock when the machine is built
BuildEpochNs ==
    2

\* the greatest u128, 2^128 - 1
U128_MAX ==
    -1

\* the instruction intervals of the scheduler runs: the default, and the
\* greatest the argument --instruction-time takes
InstructionTimes ==
    {INSTRUCTION_TIME, U128_MAX}

\* the time from the reading at the top of the loop to the reading after
\* the timed cycle
CycleTimes ==
    {0, 1}

Roms ==
    AluRoms \cup DrawRoms \cup MemRoms \cup FlowRoms \cup CallRoms
    \cup IndexRoms \cup ClearRoms \cup DecodeRoms \cup TimerRoms
    \cup NestRoms \cup BlockRoms \cup FlagDrawRoms

(***************************************************************************)
(* The state: the machine, and the record of the last cycle.               *)
(***************************************************************************)
VARIABLES
    chip8,          \* the Chip8 value
    before,         \* the machine as it was when the last cycle began
    instruction,    \* the word the last cycle fetched (-1: none yet)
    keys,           \* the pressed keys the last cycle's instruction read
    call_log,       \* the calls not yet returned from, oldest first
    odd_target,     \* a jump or call to an odd address has been executed
    cycles,         \* the number of cycles executed
    scheduler,      \* the fields of Chip8 the loop of Chip8::run uses
    iteration       \* the record of the last iteration of that loop

vars ==
    <<chip8, before, instruction, keys, call_log, odd_target, cycles,
      scheduler, iteration>>

\* the record of an iteration: its number, the machine and the scheduler
\* fields at its start, the clock reading at its top, the event queue it
\* polled, whether it left the loop, the audio calls it made and the
\* instruction words of the cycles it ran
NoIteration(m, s) ==
    [count |-> 0, m |-> m, s |-> s, current_epoch_ns |-> s.epoch_ns,
     events |-> <<>>, quit |-> FALSE, audio |-> <<>>, ran |-> <<>>]

InitOf(roms, platforms, debugs, instruction_times) ==
    \E words \in roms, platform \in platforms, overflow_checks \in BOOLEAN,
       debug \in debugs, instruction_time \in instruction_times :
        /\ RomFits(RomBytes(words))
        /\ chip8 = Build(RomBytes(words), platform, debug, overflow_checks)
        /\ before = chip8
        /\ instruction = -1
        /\ keys = {}
        /\ call_log = <<>>
        /\ odd_target = FALSE
        /\ cycles = 0
        /\ scheduler = BuildScheduler(instruction_time, BuildEpochNs)
        /\ iteration = NoIteration(chip8, scheduler)

InitWith(roms) ==
    InitOf(roms, Platforms, {FALSE}, {INSTRUCTION_TIME})

Init ==
    InitWith(Roms)

ReadsKeys(p) ==
    p.opcode = 224 \/ (p.opcode = 240 /\ p.nn = 10)

\* the address a jump, call or jump with offset of machine m goes to
TargetOf(m, p) ==
    IF p.opcode = 176
    THEN p.nnn + (IF m.quirks.jump_plus_x_register
                  THEN m.registers[p.x] ELSE m.registers[0])
    ELSE p.nnn

\* the time between two readings of the clock at the top of the loop, in
\* the runs that execute one cycle in every iteration: the instruction
\* interval, and, while a timer is running, the timer cadence (with both
\* timers at 0 the timer decrement changes no field of the machine)
CycleSteps(m, s) ==
    {s.instruction_time}
    \cup (IF m.delay_timer > 0 \/ m.sound_timer > 0
          THEN {TIMER_DECREMENT_TIME} ELSE {})

\* One iteration of the loop of Chip8::run in normal mode that finds the
\* event queue empty and the instruction interval elapsed: the timer
\* decrement if its cadence has elapsed, the timed cycle, and the refresh
\* of last_instruction_time by the reading after the cycle, which is the
\* reading at the top of the loop again.  The pressed keys and the random
\* byte are inputs of the cycle; an input the fetched instruction does not
\* read is not enumerated (the cycle is the same for every value of it).
\* A run executes at most `limit` cycles.
CycleWithin(limit) ==
    /\ scheduler.running
    /\ Running(chip8)
    /\ ~chip8.debug
    /\ cycles < limit
    /\ cycles' = cycles + 1
    /\ LET f == fetch_instruction(chip8)
           p == ParsedInstructionBuild(f.instruction)
           reads_keys   == Running(f.m) /\ ReadsKeys(p)
           reads_random == Running(f.m) /\ p.opcode = 192
       IN  \E pressed_keys \in (IF reads_keys THEN KeySets ELSE {{}}),
              random_value \in (IF reads_random THEN RandomBytes ELSE {0}),
              step \in CycleSteps(chip8, scheduler) :
             \E first_key \in (IF pressed_keys = {} THEN {0} ELSE pressed_keys) :
               LET current_epoch_ns == scheduler.epoch_ns + step
               IN \E r \in {RunIteration(chip8, scheduler, current_epoch_ns,
                                         pressed_keys, first_key,
                                         <<random_value>>, <<>>,
                                         current_epoch_ns)} :
                    /\ chip8' = r.m
                    /\ scheduler' = r.s
                    /\ iteration' = [count |-> iteration.count + 1,
                                     m |-> chip8, s |-> scheduler,
                                     current_epoch_ns |-> current_epoch_ns,
                                     events |-> <<>>, quit |-> r.quit,
                                     audio |-> r.audio, ran |-> r.ran]
                    /\ before' = r.before
                    /\ instruction' = r.ran[1]
                    /\ keys' = pressed_keys
                    /\ call_log' =
                         IF Running(r.m) /\ p.opcode = 32
                         THEN Append(call_log,
                                     [return_address |-> f.m.program_counter,
                                      stack_pointer  |-> chip8.stack_pointer])
                         ELSE IF Running(r.m) /\ p.opcode = 0 /\ p.nn = 238
                         THEN SubSeq(call_log, 1, Len(call_log) - 1)
                         ELSE call_log
                    /\ odd_target' =
                         (odd_target \/ (/\ Running(f.m)
                                         /\ p.opcode \in {16, 32, 176}
                                         /\ TargetOf(f.m, p) % 2 = 1))

Cycle ==
    CycleWithin(MaxCycles)

Next ==
    Cycle

\* a cycle of a run long enough for a program to fill the stack, return
\* from every call and halt
NestCycle ==
    CycleWithin(MaxNestCycles)

NextNest ==
    NestCycle

\* One iteration of the loop of Chip8::run, with its clock readings and
\* the event queue it finds.  The programs of the scheduler runs read no
\* key and no random byte: the snapshot of the pressed keys is empty and
\* the random bytes drawn, one for every cycle, are 0.  In debug mode no
\* timed cycle runs and the reading after it is not taken.
Iteration ==
    /\ scheduler.running
    /\ Running(chip8)
    /\ iteration.count < MaxIterations
    /\ \E step \in ClockSteps(scheduler), events \in EventQueues,
          cycle_time \in (IF chip8.debug THEN {0} ELSE CycleTimes) :
          LET current_epoch_ns == scheduler.epoch_ns + step
              random_values == [k \in 1 .. Len(events) + 1 |-> 0]
          IN \E r \in {RunIteration(chip8, scheduler, current_epoch_ns, {}, 0,
                                    random_values, events,
                                    current_epoch_ns + cycle_time)} :
              /\ chip8' = r.m
              /\ scheduler' = r.s
              /\ iteration' = [count |-> iteration.count + 1,
                               m |-> chip8, s |-> scheduler,
                               current_epoch_ns |-> current_epoch_ns,
                               events |-> events, quit |-> r.quit,
                               audio |-> r.audio, ran |-> r.ran]
              /\ cycles' = cycles + Len(r.ran)
              /\ before' = IF r.ran # <<>> THEN r.before ELSE before
              /\ instruction' = IF r.ran # <<>> THEN r.ran[Len(r.ran)]
                                ELSE instruction
              /\ keys' = IF r.ran # <<>> THEN {} ELSE keys
              /\ UNCHANGED <<call_log, odd_target>>

NextRun ==
    Iteration

Spec ==
    Init /\ [][Next]_vars

SpecAlu ==
    InitWith(AluRoms) /\ [][Next]_vars

SpecDraw ==
    InitWith(DrawRoms) /\ [][Next]_vars

SpecMem ==
    InitWith(MemRoms) /\ [][Next]_vars

SpecFlow ==
    InitWith(FlowRoms \cup CallRoms) /\ [][Next]_vars

SpecIndex ==
    InitWith(IndexRoms) /\ [][Next]_vars

SpecDecode ==
    InitWith(ClearRoms \cup DecodeRoms) /\ [][Next]_vars

SpecFlag ==
    InitWith(AluRoms \cup FlagDrawRoms) /\ [][Next]_vars

SpecBlock ==
    InitWith(MemRoms \cup BlockRoms) /\ [][Next]_vars

SpecNest ==
    InitWith(NestRoms) /\ [][NextNest]_vars

\* the timer programs execute no instruction on which the platforms differ;
\* debug mode does not use the result of the interval test, and is run
\* with the default interval
InitRun ==
    \/ InitOf(TimerRoms, {"Chip8"}, BOOLEAN, {INSTRUCTION_TIME})
    \/ InitOf(TimerRoms, {"Chip8"}, {FALSE}, InstructionTimes)

SpecRun ==
    InitRun /\ [][NextRun]_vars

(***************************************************************************)
(* What the last cycle did.                                                *)
(***************************************************************************)
\* the decoded fields of the instruction of the last cycle
Last ==
    ParsedInstructionBuild(IF instruction >= 0 THEN instruction ELSE 0)

\* the last cycle fetched an instruction and ran to its end without a panic
Completed ==
    instruction >= 0 /\ Running(chip8)

\* the last cycle completed a draw (DXYN)
Drew ==
    Completed /\ Last.opcode = 208

\* start column and row of the last draw
DrawX0 ==
    before.registers[Last.x] % DISPLAY_WIDTH

DrawY0 ==
    before.registers[Last.y] % DISPLAY_HEIGHT

\* bit `column` (0 = leftmost) of row `row` of the sprite of the last draw
SpriteBit(row, column) ==
    (RamGet(before.ram, before.index_register + row) \div Pow2(7 - column)) % 2

\* the framebuffer cells on which a set sprite bit of the last draw landed
SetBitCells ==
    {(DrawX0 + column) + (DrawY0 + row) * DISPLAY_WIDTH :
        <<row, column>> \in
            {rc \in (0 .. Last.n - 1) \X (0 .. 7) :
                /\ DrawX0 + rc[2] < DISPLAY_WIDTH
                /\ DrawY0 + rc[1] < DISPLAY_HEIGHT
                /\ SpriteBit(rc[1], rc[2]) = 1}}

(***************************************************************************)
(* C1.  After a draw (DXYN) the flag register VF is 1 if and only if at    *)
(* least one set sprite bit landed on an on-screen framebuffer cell that   *)
(* was true before the draw; a sprite row of zero bits drawn over lit      *)
(* cells leaves VF = 0.  The code does not keep this: it sets VF for a lit *)
(* cell under any bit of the sprite, set or not.                           *)
(***************************************************************************)
C1_CollisionIffSetBitOnLitCell ==
    Drew =>
        (chip8.registers[15] = 1
            <=> SetBitCells \cap before.display_buffer # {})

\* the last cycle run once more from the address of its instruction, with
\* no key pressed
Again ==
    cycle([chip8 EXCEPT !.program_counter = before.program_counter], {}, 0, 0)

(***************************************************************************)
(* C2.  Draw is an XOR involution: with coordinate registers X, Y other    *)
(* than 0xF, executing the same DXYN a second time, the index register and *)
(* the memory unchanged, gives back the framebuffer as it was before the   *)
(* first draw; on a blank screen the first draw leaves VF = 0 and, if the  *)
(* sprite has a set bit on the screen, the second leaves VF = 1.           *)
(***************************************************************************)
C2_DrawTwiceRestores ==
    (Drew /\ Last.x # 15 /\ Last.y # 15) =>
        /\ Running(Again)
        /\ Again.display_buffer = before.display_buffer
        /\ before.display_buffer = {} =>
              /\ chip8.registers[15] = 0
              /\ SetBitCells # {} => Again.registers[15] = 1

\* a draw over a screen that was not blank changed the screen and collided
C2_Witness ==
    /\ Drew /\ Last.x # 15 /\ Last.y # 15
    /\ before.display_buffer # {}
    /\ chip8.display_buffer # before.display_buffer
    /\ chip8.display_buffer # {}
    /\ Again.display_buffer = before.display_buffer

\* the machine before the last cycle, built for the other platform
BeforeOnOtherPlatform ==
    [before EXCEPT !.quirks =
        IF before.quirks = QuirksNew("Chip8")
        THEN QuirksNew("SuperChip") ELSE QuirksNew("Chip8")]

\* the smaller of two numbers
Min(a, b) ==
    IF a < b THEN a ELSE b

\* the cells (x, y) with x0 <= x <= min(x0+7, 63), y0 <= y <= min(y0+N-1, 31)
DrawRectangle ==
    {x + y * DISPLAY_WIDTH :
        x \in DrawX0 .. Min(DrawX0 + 7, 63),
        y \in DrawY0 .. Min(DrawY0 + Last.n - 1, 31)}

\* the cells whose value differs between two framebuffers
Changed(a, b) ==
    (a \ b) \cup (b \ a)

(***************************************************************************)
(* C3.  Draw clips and never wraps: with x0 = VX mod 64 and y0 = VY mod 32 *)
(* a DXYN changes only cells (x, y) with x0 <= x <= min(x0+7, 63) and      *)
(* y0 <= y <= min(y0+N-1, 31): exactly those of them a set sprite bit      *)
(* landed on; pixels of a column >= 64 or a row >= 32 are dropped and all  *)
(* other cells are left as they were, the same under both platforms.       *)
(***************************************************************************)
C3_DrawClips ==
    Drew =>
        /\ Changed(chip8.display_buffer, before.display_buffer) \subseteq DrawRectangle
        /\ Changed(chip8.display_buffer, before.display_buffer) = SetBitCells
        /\ LET other == cycle(BeforeOnOtherPlatform, {}, 0, 0)
           IN  /\ other.display_buffer = chip8.display_buffer
               /\ other.registers = chip8.registers

\* a two-row sprite of set bits drawn at the bottom right corner (63, 31):
\* one pixel lands, seven columns and one row are dropped
C3_Witness ==
    /\ Drew /\ Last.n = 2
    /\ DrawX0 = 63 /\ DrawY0 = 31
    /\ SpriteBit(0, 0) = 1 /\ SpriteBit(0, 1) = 1 /\ SpriteBit(1, 0) = 1
    /\ Changed(chip8.display_buffer, before.display_buffer) = {DISPLAY_LEN - 1}

\* the last cycle completed an 8XYN
DidAlu(n) ==
    Completed /\ Last.opcode = 128 /\ Last.n = n

(***************************************************************************)
(* C4.  For all 8-bit a = VX and b = VY, X other than 0xF: 8XY4 leaves     *)
(* VX = (a+b) mod 256 and VF = 1 iff a+b > 255; 8XY5 leaves                *)
(* VX = (a-b) mod 256 and VF = 1 iff a >= b; 8XY7 leaves VX = (b-a) mod    *)
(* 256 and VF = 1 iff b >= a.                                              *)
(***************************************************************************)
C4_AddSubtractFlags ==
    LET a == before.registers[Last.x]
        b == before.registers[Last.y]
        VX == chip8.registers[Last.x]
        VF == chip8.registers[15]
    IN  /\ (DidAlu(4) /\ Last.x # 15) =>
              VX = (a + b) % 256 /\ (VF = 1 <=> a + b > 255) /\ VF \in {0, 1}
        /\ (DidAlu(5) /\ Last.x # 15) =>
              VX = (a - b) % 256 /\ (VF = 1 <=> a >= b) /\ VF \in {0, 1}
        /\ (DidAlu(7) /\ Last.x # 15) =>
              VX = (b - a) % 256 /\ (VF = 1 <=> b >= a) /\ VF \in {0, 1}

\* 8XY5 with a borrow: 1 - 255 = 2 mod 256, VF = 0
C4_Witness ==
    /\ DidAlu(5) /\ Last.x = 0 /\ Last.y = 1
    /\ before.registers[0] = 1 /\ before.registers[1] = 255
    /\ chip8.registers[0] = 2 /\ chip8.registers[15] = 0

(***************************************************************************)
(* C5.  The shifts honour the shift-source quirk and capture the bit       *)
(* shifted out: with s = VX when shift-in-place is enabled (SuperChip) and *)
(* s = VY when it is disabled (Chip8), after 8XY6 VF = s mod 2 and, for X  *)
(* other than 0xF, VX = s div 2; after 8XYE VF = bit 7 of s and, for X     *)
(* other than 0xF, VX = 2s mod 256.                                        *)
(***************************************************************************)
C5_ShiftQuirk ==
    LET s == IF before.quirks.shift_in_place
             THEN before.registers[Last.x]
             ELSE before.registers[Last.y]
        VX == chip8.registers[Last.x]
        VF == chip8.registers[15]
    IN  /\ DidAlu(6) =>
              VF = s % 2 /\ (Last.x # 15 => VX = s \div 2)
        /\ DidAlu(14) =>
              VF = (s \div 128) % 2 /\ (Last.x # 15 => VX = (2 * s) % 256)

\* Chip8 profile: 8016 with V0 = 128 and V1 = 255 shifts V1, not V0
C5_Witness ==
    /\ DidAlu(6) /\ Last.x = 0 /\ Last.y = 1
    /\ ~before.quirks.shift_in_place
    /\ before.registers[0] = 128 /\ before.registers[1] = 255
    /\ chip8.registers[0] = 127 /\ chip8.registers[15] = 1

\* the last cycle completed a block store (85) or load (101)
DidBlock(nn) ==
    Completed /\ Last.opcode = 240 /\ Last.nn = nn

(***************************************************************************)
(* C6.  After a block store (FX55) or block load (FX65) with any X and     *)
(* starting index I0 the index register is I0 + X + 1 when the             *)
(* auto-increment quirk is enabled, and I0 when it is disabled.            *)
(***************************************************************************)
C6_BlockTransferIndex ==
    (DidBlock(85) \/ DidBlock(101)) =>
        chip8.index_register =
            IF before.quirks.increment_index_register
            THEN before.index_register + Last.x + 1
            ELSE before.index_register

\* a store of all sixteen registers with the quirk enabled
C6_Witness ==
    /\ DidBlock(85) /\ Last.x = 15
    /\ before.quirks.increment_index_register
    /\ chip8.index_register = before.index_register + 16

\* the last cycle fetched a key wait (FX0A)
DidKeyWait ==
    instruction >= 0 /\ Last.opcode = 240 /\ Last.nn = 10

(***************************************************************************)
(* C7.  Key-wait (FX0A) is a cooperative spin.  After a cycle that         *)
(* executed it with no key pressed, the program counter is the address of  *)
(* the FX0A and registers, index register, memory, stack and framebuffer   *)
(* are unchanged, so the next cycle fetches the same instruction; after a  *)
(* cycle that executed it with a key pressed, VX is a member of the        *)
(* pressed-key set and the program counter is the FX0A address + 2.        *)
(***************************************************************************)
C7_KeyWaitSpins ==
    DidKeyWait =>
        /\ Running(chip8)
        /\ keys = {} =>
              /\ chip8.program_counter = before.program_counter
              /\ chip8.registers = before.registers
              /\ chip8.index_register = before.index_register
              /\ chip8.ram = before.ram
              /\ chip8.stack = before.stack
              /\ chip8.stack_pointer = before.stack_pointer
              /\ chip8.display_buffer = before.display_buffer
              /\ fetch_instruction(chip8).instruction = instruction
        /\ keys # {} =>
              /\ chip8.registers[Last.x] \in keys
              /\ chip8.program_counter = before.program_counter + 2

\* a key wait, not the first instruction of the run, takes key 1 of the
\* pressed keys 0 and 1
C7_Witness ==
    /\ DidKeyWait
    /\ cycles >= 2
    /\ keys = {0, 1}
    /\ chip8.registers[Last.x] = 1
    /\ before.registers[Last.x] = 0
    /\ chip8.program_counter = before.program_counter + 2

(***************************************************************************)
(* C8.  Calls and returns are LIFO: in a run that never returns on an      *)
(* empty stack and never exceeds the stack, each RETURN (00EE) sets the    *)
(* program counter to the address following the most recent CALL (2NNN)    *)
(* not yet returned from, and the stack pointer to its value before that   *)
(* CALL.                                                                   *)
(***************************************************************************)
C8_ReturnIsLifo ==
    [][(cycles' = cycles + 1 /\ instruction' = 238 /\ Running(chip8')) =>
          /\ call_log # <<>>
          /\ chip8'.program_counter = call_log[Len(call_log)].return_address
          /\ chip8'.stack_pointer = call_log[Len(call_log)].stack_pointer
          /\ call_log' = SubSeq(call_log, 1, Len(call_log) - 1)]_vars

\* a return from a nested call: one call is still to be returned from, and
\* the program counter is behind the inner call, not behind the outer one
C8_Witness ==
    /\ Completed /\ instruction = 238
    /\ Len(call_log) = 1
    /\ before.stack_pointer = 2
    /\ chip8.stack_pointer = 1
    /\ chip8.program_counter = before.stack[2]
    /\ before.stack[2] # before.stack[1]

(***************************************************************************)
(* C9.  The stack pointer never goes below zero: a RETURN (00EE) executed  *)
(* with stack pointer 0 is fatal, ending the execution with the program    *)
(* counter still at the address behind the RETURN and the stack pointer    *)
(* still 0.                                                                *)
(***************************************************************************)
C9_ReturnOnEmptyStackIsFatal ==
    /\ chip8.stack_pointer >= 0
    /\ (instruction = 238 /\ before.stack_pointer = 0) =>
          /\ ~Running(chip8)
          /\ chip8.program_counter = before.program_counter + 2
          /\ chip8.stack_pointer = 0

\* a RETURN on the empty stack, after a call and its return
C9_Witness ==
    /\ instruction = 238
    /\ before.stack_pointer = 0
    /\ before.stack[1] # 0
    /\ ~Running(chip8)

(***************************************************************************)
(* C10, as claimed.  The program counter is even in every reachable state, *)
(* for every program and every sequence of instructions.                   *)
(***************************************************************************)
C10_PcAlwaysEven ==
    chip8.program_counter % 2 = 0

(***************************************************************************)
(* C10, amended.  The program counter is even in every reachable state in  *)
(* which no jump (1NNN) or call (2NNN) to an odd NNN and no jump with      *)
(* offset (BNNN) to an odd NNN + offset has been executed: the fetch, the  *)
(* skips, key wait, return and the jumps and calls to even addresses keep  *)
(* it even.                                                                *)
(***************************************************************************)
C10_PcEvenUnlessOddTarget ==
    ~odd_target => chip8.program_counter % 2 = 0

\* a skip taken inside a subroutine, no odd target executed so far
C10_Witness ==
    /\ Completed /\ Last.opcode = 48
    /\ ~odd_target
    /\ call_log # <<>>
    /\ chip8.program_counter = before.program_counter + 4

\* the addresses the fetch of the last cycle used
FetchAddresses ==
    {before.program_counter, before.program_counter + 1}

\* the last cycle fetched a BCD store (FX33)
DidBcd ==
    instruction >= 0 /\ Last.opcode = 240 /\ Last.nn = 51

\* the last cycle fetched a block store (FX55)
DidStore ==
    instruction >= 0 /\ Last.opcode = 240 /\ Last.nn = 85

\* the last cycle fetched a block load (FX65)
DidLoad ==
    instruction >= 0 /\ Last.opcode = 240 /\ Last.nn = 101

\* the addresses the instruction of the last cycle is to use: the sprite
\* rows I + row of the rows on the screen, I .. I+2, I .. I+X
OperandAddresses ==
    IF instruction < 0 THEN {}
    ELSE IF Last.opcode = 208
    THEN {before.index_register + row :
             row \in {r \in 0 .. Last.n - 1 : DrawY0 + r < DISPLAY_HEIGHT}}
    ELSE IF DidBcd
    THEN before.index_register .. before.index_register + 2
    ELSE IF DidStore \/ DidLoad
    THEN before.index_register .. before.index_register + Last.x
    ELSE {}

\* the addresses the instruction of the last cycle is to write
WrittenAddresses ==
    IF DidBcd \/ DidStore THEN OperandAddresses ELSE {}

\* the addresses at which two memories differ
RamDiff(a, b) ==
    {x \in DOMAIN a \cup DOMAIN b : RamGet(a, x) # RamGet(b, x)}

(***************************************************************************)
(* C11.  Every memory address an instruction uses (the fetch at PC and     *)
(* PC+1, sprite rows at I+row, BCD at I..I+2, block store and load at      *)
(* I..I+X) is within 0..4095 or the access is fatal: a cycle with an       *)
(* address outside memory ends in a panic, a fetch outside memory changes  *)
(* nothing else, no cell other than the in-bounds cells the instruction is *)
(* to write changes, a completed load reads the cells I..I+X, and memory   *)
(* has no cell outside 0..4095.                                            *)
(***************************************************************************)
C11_AddressesInBoundsOrFatal ==
    cycles > 0 =>
        /\ (\E a \in FetchAddresses \cup OperandAddresses : a >= RAM_LEN)
              => ~Running(chip8)
        /\ (\E a \in FetchAddresses : a >= RAM_LEN)
              => instruction = -1 /\ chip8 = Panic(before, chip8.panic)
        /\ RamDiff(chip8.ram, before.ram)
              \subseteq (WrittenAddresses \cap (0 .. RAM_LEN - 1))
        /\ (DidLoad /\ Running(chip8)) =>
              \A i \in 0 .. Last.x :
                 chip8.registers[i] = RamGet(before.ram, before.index_register + i)
        /\ DOMAIN chip8.ram \subseteq 0 .. RAM_LEN - 1

\* a BCD store of 255 at the last two bytes of memory: 2 and 5 are written,
\* the store of the third digit at 4096 panics
C11_Witness ==
    /\ DidBcd
    /\ before.index_register = RAM_LEN - 2
    /\ RamGet(chip8.ram, RAM_LEN - 2) = 2
    /\ RamGet(chip8.ram, RAM_LEN - 1) = 5
    /\ RamGet(chip8.ram, 0) = 0
    /\ ~Running(chip8)

\* the last step was an iteration of the scheduler loop
Iterated ==
    iteration.count > 0

\* the time from the last decrement to the clock reading at the top of the
\* last iteration was at least the timer cadence
Ticked ==
    /\ Iterated
    /\ iteration.current_epoch_ns - iteration.s.last_decrement_timer_time
          >= TIMER_DECREMENT_TIME

\* the time from the last instruction to the clock reading at the top of
\* the last iteration was at least the instruction interval (an interval
\* near 2^128, held as a negative integer, is longer than any time passed)
Timed ==
    /\ Iterated
    /\ iteration.s.instruction_time >= 0
    /\ iteration.current_epoch_ns - iteration.s.last_instruction_time
          >= iteration.s.instruction_time

\* a timer one cadence tick later
Decremented(timer) ==
    IF timer > 0 THEN timer - 1 ELSE 0

\* the cycles of the last iteration that executed FX15 (nn = 21) or FX18
\* (nn = 24)
RanTimerSet(nn) ==
    {i \in 1 .. Len(iteration.ran) :
        /\ iteration.ran[i] >= 0
        /\ ParsedInstructionBuild(iteration.ran[i]).opcode = 240
        /\ ParsedInstructionBuild(iteration.ran[i]).nn = nn}

(***************************************************************************)
(* C12.  In an iteration whose elapsed time since the last decrement is at *)
(* least the cadence, the delay timer and the sound timer are each         *)
(* decremented by exactly 1 if nonzero and left at 0 if zero, never        *)
(* wrapping to 255; in an iteration where the cadence has not elapsed      *)
(* neither is decremented; otherwise a timer changes only by FX15 (delay)  *)
(* and FX18 (sound), which set it to VX.                                   *)
(***************************************************************************)
C12_TimersDecrementOnCadence ==
    Iterated =>
        LET delay == IF Ticked THEN Decremented(iteration.m.delay_timer)
                     ELSE iteration.m.delay_timer
            sound == IF Ticked THEN Decremented(iteration.m.sound_timer)
                     ELSE iteration.m.sound_timer
        IN  /\ RanTimerSet(21) = {} => chip8.delay_timer = delay
            /\ RanTimerSet(24) = {} => chip8.sound_timer = sound
            /\ RanTimerSet(21) # {} =>
                  chip8.delay_timer = chip8.registers[Last.x]
                     \/ Last.opcode # 240 \/ Last.nn # 21
            /\ RanTimerSet(24) # {} =>
                  chip8.sound_timer = chip8.registers[Last.x]
                     \/ Last.opcode # 240 \/ Last.nn # 24
            /\ chip8.delay_timer \in 0 .. 255
            /\ chip8.sound_timer \in 0 .. 255

\* the places of the quit signals and terminate keys in the event queue of
\* the last iteration
QuitAt ==
    {i \in 1 .. Len(iteration.events) :
        iteration.events[i] \in {"Quit", "Escape"}}

\* the number of events in front of the first quit signal or terminate key
BeforeQuit ==
    IF QuitAt = {} THEN Len(iteration.events)
    ELSE (CHOOSE i \in QuitAt : \A j \in QuitAt : i <= j) - 1

\* the number of single-step triggers taken from the queue
TriggersTaken ==
    Cardinality({i \in 1 .. BeforeQuit : iteration.events[i] = "Return"})

(***************************************************************************)
(* C13.  In every iteration at most one cycle executes: in normal mode     *)
(* exactly one when the elapsed time since the last instruction is at      *)
(* least the instruction interval (and the loop is not left) and none      *)
(* otherwise; in debug mode elapsed time never triggers a cycle, a cycle   *)
(* runs only in response to a manual trigger, and no more than one cycle   *)
(* runs per iteration.                                                     *)
(***************************************************************************)
C13_AtMostOneCyclePerIteration ==
    Iterated =>
        /\ Len(iteration.ran) <= 1
        /\ ~iteration.m.debug =>
              (Len(iteration.ran) = 1 <=> (Timed /\ QuitAt = {}))
        /\ iteration.m.debug =>
              (Len(iteration.ran) >= 1 => TriggersTaken >= 1)

(***************************************************************************)
(* C14.  On every cadence tick exactly one audio call is made: play() if   *)
(* the sound timer is nonzero at the tick, before its decrement, stop() if *)
(* it is zero; an iteration that is no cadence tick makes no audio call.   *)
(* So the tick after the one that brought the sound timer to 0 calls       *)
(* stop().                                                                 *)
(***************************************************************************)
C14_OneAudioCallPerTick ==
    Iterated =>
        iteration.audio =
            IF ~Ticked THEN <<>>
            ELSE IF iteration.m.sound_timer > 0 THEN <<"play">>
            ELSE <<"stop">>

(***************************************************************************)
(* C15, as claimed.  After one cycle that executes clear screen (00E0),    *)
(* from any state, every framebuffer cell is false and the dirty flag is   *)
(* set.                                                                    *)
(***************************************************************************)
C15_ClearLeavesDirtyFlagSet ==
    (Completed /\ instruction = 224) =>
        /\ chip8.display_buffer = {}
        /\ chip8.update_display

(***************************************************************************)
(* C15, amended.  After one cycle that executes clear screen (00E0), from  *)
(* any state, every framebuffer cell is false, the all-false framebuffer   *)
(* has been presented to the display, and the dirty flag, set by clear     *)
(* screen, is false again: the presentation at the end of the cycle        *)
(* clears it.                                                              *)
(***************************************************************************)
C15_ClearBlanksAndPresents ==
    (instruction = 224) =>
        /\ Running(chip8)
        /\ chip8.display_buffer = {}
        /\ chip8.canvas = {}
        /\ ~chip8.update_display

\* a clear of a screen on which a sprite is lit and shown
C15_Witness ==
    /\ Completed /\ instruction = 224
    /\ before.display_buffer # {}
    /\ before.canvas = before.display_buffer
    /\ chip8.display_buffer = {}
    /\ chip8.canvas = {}

\* the addresses of the font region
FontRegion ==
    FONT_START .. FONT_END - 1

\* the font region of a memory holds the built-in font table
FontIntact(ram) ==
    \A a \in FontRegion : RamGet(ram, a) = FONT[a - FONT_START + 1]

(***************************************************************************)
(* C16, as claimed.  The 80 bytes of the font region equal the built-in    *)
(* font table in every reachable state: no instruction, BCD store and      *)
(* block store with the index register in the font region included,        *)
(* changes a font byte after construction.                                 *)
(***************************************************************************)
C16_FontNeverChanges ==
    FontIntact(chip8.ram)

(***************************************************************************)
(* C16, amended.  The font region equals the built-in font table after     *)
(* construction, and a cycle changes a font byte only if its instruction   *)
(* is a BCD store (FX33) or a block store (FX55) and the byte is among the *)
(* addresses I..I+2, I..I+X it writes; every other instruction leaves the  *)
(* font region as it was.                                                  *)
(***************************************************************************)
C16_FontChangedOnlyByStoresIntoIt ==
    /\ cycles = 0 => FontIntact(chip8.ram)
    /\ \A a \in FontRegion :
          RamGet(chip8.ram, a) # RamGet(before.ram, a) =>
              /\ DidBcd \/ DidStore
              /\ a \in WrittenAddresses
    /\ ~(DidBcd \/ DidStore) =>
          (FontIntact(before.ram) => FontIntact(chip8.ram))

\* a BCD store at the byte below the font region replaces the first two
\* bytes of glyph 0 by the tens and ones digits
C16_Witness ==
    /\ DidBcd /\ Running(chip8)
    /\ before.index_register = FONT_START - 1
    /\ FontIntact(before.ram)
    /\ RamGet(chip8.ram, FONT_START) # FONT[1]
    /\ RamGet(chip8.ram, FONT_START + 1) # FONT[2]
    /\ RamGet(chip8.ram, FONT_START + 2) = FONT[3]

(***************************************************************************)
(* C17.  For every register value v and index I with I+2 inside memory,    *)
(* BCD store (FX33) completes and writes h, t, o to the addresses I, I+1,  *)
(* I+2, where h, t, o are decimal digits with 100*h + 10*t + o = v (255    *)
(* writes 2, 5, 5), and changes no other memory byte, no register and not  *)
(* the index register.                                                     *)
(***************************************************************************)
C17_BcdDigits ==
    (DidBcd /\ before.index_register + 2 < RAM_LEN) =>
        LET v == before.registers[Last.x]
            I == before.index_register
        IN  /\ Running(chip8)
            /\ \E h \in 0 .. 9, t \in 0 .. 9, o \in 0 .. 9 :
                  /\ 100 * h + 10 * t + o = v
                  /\ RamGet(chip8.ram, I) = h
                  /\ RamGet(chip8.ram, I + 1) = t
                  /\ RamGet(chip8.ram, I + 2) = o
            /\ v = 255 =>
                  /\ RamGet(chip8.ram, I) = 2
                  /\ RamGet(chip8.ram, I + 1) = 5
                  /\ RamGet(chip8.ram, I + 2) = 5
            /\ RamDiff(chip8.ram, before.ram) \subseteq {I, I + 1, I + 2}
            /\ chip8.registers = before.registers
            /\ chip8.index_register = I

\* 129 stored as 1, 2, 9 at the last three bytes of memory
C17_Witness ==
    /\ DidBcd /\ Running(chip8)
    /\ before.index_register = RAM_LEN - 3
    /\ before.registers[Last.x] = 129
    /\ RamGet(chip8.ram, RAM_LEN - 3) = 1
    /\ RamGet(chip8.ram, RAM_LEN - 2) = 2
    /\ RamGet(chip8.ram, RAM_LEN - 1) = 9

\* the last cycle fetched a font sprite address (FX29)
DidFontSprite ==
    instruction >= 0 /\ Last.opcode = 240 /\ Last.nn = 41

(***************************************************************************)
(* C18.  For every 8-bit register value v, font sprite address (FX29) sets *)
(* the index register to the font region base + v*5, the product computed  *)
(* without 8-bit truncation or overflow.  The code does not keep this: it  *)
(* multiplies in 8 bits, so for v >= 52 it panics (overflow checks) or     *)
(* sets the index register to base + (v*5 mod 256).                        *)
(***************************************************************************)
C18_FontSpriteAddress ==
    DidFontSprite =>
        /\ Running(chip8)
        /\ chip8.index_register = FONT_START + before.registers[Last.x] * 5

\* the instruction words the interpreter defines
IsDefined(word) ==
    LET opcode == word \div 4096
        n      == word % 16
        nn     == word % 256
    IN  \/ word \in {224, 238}
        \/ opcode \in {1, 2, 3, 4, 6, 7, 10, 11, 12, 13}
        \/ opcode \in {5, 9} /\ n = 0
        \/ opcode = 8 /\ n \in (0 .. 7) \cup {14}
        \/ opcode = 14 /\ nn \in {158, 161}
        \/ opcode = 15 /\ nn \in {7, 10, 21, 24, 30, 41, 51, 85, 101}

(***************************************************************************)
(* C19.  Every 16-bit instruction word that is not a defined instruction   *)
(* is fatal when executed, 5XYN and 9XYN with N other than 0 included: the *)
(* cycle that fetched it ends in a panic.  The code does not keep this: it *)
(* executes 5XYN and 9XYN for every N as the register skips, and 0XE0 and  *)
(* 0XEE for every X as clear screen and return.                            *)
(***************************************************************************)
C19_UndefinedWordIsFatal ==
    (instruction >= 0 /\ ~IsDefined(instruction)) => ~Running(chip8)

(***************************************************************************)
(* C20.  Once a quit signal or a terminate key is taken from the event     *)
(* queue the loop ends at once: the iteration runs no cycle but those of   *)
(* the triggers in front of it (none in normal mode, whatever time has     *)
(* elapsed), the triggers behind it are not served, no clock reading is    *)
(* taken as the time of an instruction, the iteration has made at most the *)
(* one timer decrement with its one audio call that the top of the loop    *)
(* makes before it polls the queue, and no further iteration follows.  An  *)
(* event is taken only by a loop that is still executing.                  *)
(***************************************************************************)
C20_QuitEndsLoop ==
    /\ [](Iterated =>
            LET ticked == iteration.audio # <<>>
            IN  /\ iteration.quit <=> (QuitAt # {} /\ Running(chip8))
                /\ scheduler.running <=> ~iteration.quit
                /\ iteration.quit =>
                      /\ Len(iteration.ran) =
                            IF iteration.m.debug THEN TriggersTaken ELSE 0
                      /\ Len(iteration.audio) <= 1
                      /\ scheduler.last_instruction_time =
                            iteration.s.last_instruction_time
                      /\ scheduler.last_decrement_timer_time =
                            IF ticked THEN iteration.current_epoch_ns
                            ELSE iteration.s.last_decrement_timer_time
                      /\ iteration.ran = <<>> =>
                            chip8 = [iteration.m EXCEPT
                                       !.delay_timer =
                                          IF ticked THEN Decremented(@) ELSE @,
                                       !.sound_timer =
                                          IF ticked THEN Decremented(@) ELSE @])
    /\ [][scheduler.running]_vars

\* a quit between two triggers in debug mode, the instruction interval
\* elapsed: the trigger in front of it ran its cycle, the one behind did not
C20_Witness ==
    /\ Iterated /\ Timed
    /\ iteration.m.debug
    /\ iteration.events = <<"Return", "Quit", "Return">>
    /\ Len(iteration.ran) = 1
    /\ ~scheduler.running

\* the last cycle fetched a call (2NNN)
DidCall ==
    instruction >= 0 /\ Last.opcode = 32

\* the number of calls not yet returned from when the last cycle began
NestedBefore ==
    IF DidCall /\ Running(chip8) THEN Len(call_log) - 1 ELSE Len(call_log)

\* every call not yet returned from has its return address in a slot of
\* its own: the slot numbered as the stack pointer before the call, or, for
\* every call alike, the one behind it
ReturnAddressesStored ==
    \E d \in {0, 1} :
        \A k \in 1 .. Len(call_log) :
            /\ call_log[k].stack_pointer = k - 1
            /\ k - 1 + d \in 0 .. STACK_LEN - 1
            /\ chip8.stack[k - 1 + d] = call_log[k].return_address

(***************************************************************************)
(* C21.  The call stack holds 16 return addresses: from an empty stack,    *)
(* each of 16 nested CALLs (2NNN) with no RETURN between them succeeds     *)
(* without a fatal condition and stores its return address in a stack slot *)
(* of its own, and the RETURNs (00EE) that follow restore the program      *)
(* counters in reverse order.                                              *)
(***************************************************************************)
C21_SixteenNestedCalls ==
    /\ [](/\ (DidCall /\ NestedBefore < STACK_LEN) => Running(chip8)
          /\ Running(chip8) => ReturnAddressesStored)
    /\ [][(cycles' = cycles + 1 /\ instruction' = 238 /\ call_log # <<>>) =>
            /\ Running(chip8')
            /\ chip8'.program_counter = call_log[Len(call_log)].return_address]_vars

\* the last cycle completed a block load right behind a block store of the
\* same registers: the word in front of the load is the FX55 with its X
\* (the programs run straight through their block transfers, so that word
\* is the instruction of the cycle before)
DidLoadBehindStore ==
    /\ DidBlock(101) /\ cycles >= 2
    /\ before.program_counter >= 2
    /\ fetch_instruction([before EXCEPT !.program_counter = @ - 2]).instruction
          = 61440 + 256 * Last.x + 85

(***************************************************************************)
(* C22.  Block store and block load copy the same data under both settings *)
(* of the auto-increment quirk.  A completed FX55 with starting index I0   *)
(* has written register i to the address I0 + i for each i in 0..X and     *)
(* changed no other memory byte (and no register); a completed FX65 has    *)
(* set register i to memory[I0 + i] for each i in 0..X and changed no      *)
(* register above X (and no memory byte).  So, with the quirk disabled, an *)
(* FX65 right behind an FX55 with the same X leaves all registers as they  *)
(* were.                                                                   *)
(***************************************************************************)
C22_BlockTransferCopies ==
    LET I0 == before.index_register
        X  == Last.x
    IN  /\ DidBlock(85) =>
              /\ \A i \in 0 .. X :
                    RamGet(chip8.ram, I0 + i) = before.registers[i]
              /\ RamDiff(chip8.ram, before.ram) \subseteq I0 .. I0 + X
              /\ chip8.registers = before.registers
        /\ DidBlock(101) =>
              /\ \A i \in 0 .. X :
                    chip8.registers[i] = RamGet(before.ram, I0 + i)
              /\ \A i \in X + 1 .. REGISTER_COUNT - 1 :
                    chip8.registers[i] = before.registers[i]
              /\ chip8.ram = before.ram
        /\ (DidLoadBehindStore /\ ~before.quirks.increment_index_register) =>
              chip8.registers = before.registers

\* quirk disabled: the sixteen registers, holding the first sixteen bytes
\* of the font, are stored at the scratch address and loaded back from it
C22_Witness ==
    /\ DidLoadBehindStore /\ Last.x = 15
    /\ ~before.quirks.increment_index_register
    /\ before.index_register = ScratchAddress
    /\ chip8.registers[0] = 240 /\ chip8.registers[1] = 144
    /\ chip8.registers[5] = 32 /\ chip8.registers[15] = 240
    /\ RamGet(chip8.ram, ScratchAddress + 5) = 32
    /\ RamGet(chip8.ram, ScratchAddress + 15) = 240
    /\ RamGet(chip8.ram, ScratchAddress + 16) = 0

\* the last cycle completed a clear-screen (00E0) or a draw (DXYN)
DidClearOrDraw ==
    Completed /\ (instruction = 224 \/ Last.opcode = 208)

(***************************************************************************)
(* C23.  The display sink is rendered exactly once for each cycle that     *)
(* executes a clear-screen or a draw instruction, and never for a cycle    *)
(* that executes any other instruction; the framebuffer passed to the sink *)
(* is the buffer as it is after that instruction, and the dirty flag is    *)
(* false again at the end of every cycle, so that no change of the         *)
(* framebuffer is left unpresented between cycles.                         *)
(***************************************************************************)
C23_RenderOncePerClearOrDraw ==
    /\ DidClearOrDraw =>
          /\ chip8.renders = before.renders + 1
          /\ chip8.canvas = chip8.display_buffer
    /\ (cycles > 0 /\ ~DidClearOrDraw) =>
          /\ chip8.renders = before.renders
          /\ chip8.canvas = before.canvas
          /\ Running(chip8) => chip8.display_buffer = before.display_buffer
    /\ ~chip8.update_display
    /\ Running(chip8) => chip8.canvas = chip8.display_buffer

\* the last cycle completed an 8FYN, whose destination is the flag register
DidAluOnFlag(n) ==
    DidAlu(n) /\ Last.x = 15

(***************************************************************************)
(* C24.  When the destination register X is 0xF the flag write wins over   *)
(* the result write: after 8FY4, 8FY5, 8FY7 the value of VF is the carry / *)
(* no-borrow flag (0 or 1), after 8FY6 and 8FYE it is the bit shifted out, *)
(* and after 8FY1, 8FY2, 8FY3 under the reset-flag quirk it is 0.  In      *)
(* every state that follows one of the flag-setting arithmetic, shift or   *)
(* draw instructions VF is 0 or 1.                                         *)
(***************************************************************************)
C24_FlagWriteWins ==
    LET a  == before.registers[15]
        b  == before.registers[Last.y]
        s  == IF before.quirks.shift_in_place THEN a ELSE b
        VF == chip8.registers[15]
    IN  /\ DidAluOnFlag(4) => VF = IF a + b > 255 THEN 1 ELSE 0
        /\ DidAluOnFlag(5) => VF = IF a >= b THEN 1 ELSE 0
        /\ DidAluOnFlag(7) => VF = IF b >= a THEN 1 ELSE 0
        /\ DidAluOnFlag(6) => VF = s % 2
        /\ DidAluOnFlag(14) => VF = (s \div 128) % 2
        /\ ((DidAluOnFlag(1) \/ DidAluOnFlag(2) \/ DidAluOnFlag(3))
               /\ before.quirks.reset_flag) => VF = 0
        /\ ((\E n \in {4, 5, 6, 7, 14} : DidAlu(n)) \/ Drew) => VF \in {0, 1}

\* 8F14 with VF = 255 and V1 = 255: the sum is 510, the result 254 is
\* written to VF first and the carry 1 over it
C24_Witness ==
    /\ DidAluOnFlag(4) /\ Last.y = 1
    /\ before.registers[15] = 255 /\ before.registers[1] = 255
    /\ chip8.registers[15] = 1

=============================================================================
